---- MODULE Spec2Model ----
(***************************************************************************)
(* A model of resume_to_pdf.py: the inline-markup converter md_inline, the *)
(* line classifier parse_resume_md and the command-line run around them.   *)
(*                                                                         *)
(* A Python str is a sequence of one-character strings, so that the        *)
(* regular expressions of the source can be evaluated position by          *)
(* position.  Indices named i, j are 0-based as in the source; positions   *)
(* named p, q are 1-based positions into a TLA+ sequence.                  *)
(***************************************************************************)
EXTENDS Integers, Sequences, FiniteSets, TLC

VARIABLES
    md_file,          \* the input path: [exists, content], content = md_text.split('\n')
    pdf_written,      \* TRUE once doc.build has written the output file
    exit_code,        \* -1 while running, else the process's exit status
    stderr,           \* number of messages printed to sys.stderr
    calls,            \* the steps of the run performed so far, in order
    pc,               \* position of the run
    lines,            \* parse_resume_md: lines
    story,            \* parse_resume_md: story
    i,                \* parse_resume_md: i (0-based)
    is_header_done,   \* parse_resume_md: is_header_done
    current_section,  \* parse_resume_md: current_section
    span,             \* for each element of story, the lines consumed for it
    text,             \* md_inline run: the input string
    once,             \* md_inline run: md_inline(text)
    twice,            \* md_inline run: md_inline(md_inline(text))
    ipc               \* md_inline run: position

vars == <<md_file, pdf_written, exit_code, stderr, calls, pc, lines, story, i,
          is_header_done, current_section, span, text, once, twice, ipc>>

cliVars == <<md_file, pdf_written, exit_code, stderr, calls, pc, lines, story, i,
             is_header_done, current_section, span>>

inlineVars == <<text, once, twice, ipc>>

(***************************************************************************)
(* Bounds                                                                  *)
(***************************************************************************)
MaxLines == 3       \* an input document has 1..MaxLines lines
MaxLen == 4         \* an md_inline input has 0..MaxLen characters

(***************************************************************************)
(* str helpers                                                             *)
(***************************************************************************)
Whitespace == {" ", "\t", "\r", "\n"}

startswith(s, prefix) ==
    /\ Len(s) >= Len(prefix)
    /\ SubSeq(s, 1, Len(prefix)) = prefix

\* s[n:] for a 0-based n
From(s, n) == SubSeq(s, n + 1, Len(s))

\* c in s, for a single character c
Has(s, c) == \E p \in 1..Len(s) : s[p] = c

\* sub in s, for a string sub
HasStr(s, sub) == \E p \in 1..(Len(s) - Len(sub) + 1) : SubSeq(s, p, p + Len(sub) - 1) = sub

RECURSIVE rstripChars(_, _)
rstripChars(s, cs) ==
    IF s # <<>> /\ s[Len(s)] \in cs THEN rstripChars(SubSeq(s, 1, Len(s) - 1), cs) ELSE s

RECURSIVE lstripChars(_, _)
lstripChars(s, cs) ==
    IF s # <<>> /\ s[1] \in cs THEN lstripChars(Tail(s), cs) ELSE s

rstrip(s) == rstripChars(s, Whitespace)

strip(s) == lstripChars(rstripChars(s, Whitespace), Whitespace)

stripChars(s, cs) == lstripChars(rstripChars(s, cs), cs)

LowerOf == [c \in {"E", "X", "P", "R", "T", "I", "S", "W", "O", "K", "L", "N", "C", "A", "B", "D"} |->
              CASE c = "E" -> "e" [] c = "X" -> "x" [] c = "P" -> "p" [] c = "R" -> "r"
                [] c = "T" -> "t" [] c = "I" -> "i" [] c = "S" -> "s" [] c = "W" -> "w"
                [] c = "O" -> "o" [] c = "K" -> "k" [] c = "L" -> "l" [] c = "N" -> "n"
                [] c = "C" -> "c" [] c = "A" -> "a" [] c = "B" -> "b" [] c = "D" -> "d"]

lower(s) == [p \in 1..Len(s) |-> IF s[p] \in DOMAIN LowerOf THEN LowerOf[s[p]] ELSE s[p]]

upper(s) ==
    [p \in 1..Len(s) |->
        IF \E c \in DOMAIN LowerOf : LowerOf[c] = s[p]
        THEN CHOOSE c \in DOMAIN LowerOf : LowerOf[c] = s[p]
        ELSE s[p]]

\* the first position >= p of s that holds c, or 0
Find(s, p, c) ==
    IF \E q \in p..Len(s) : s[q] = c
    THEN CHOOSE q \in p..Len(s) : s[q] = c /\ \A r \in p..(q - 1) : s[r] # c
    ELSE 0

(***************************************************************************)
(* md_inline                                                               *)
(***************************************************************************)
THEME_accent == <<"#", "2", "d", "6", "a", "8", "f">>

\* r'\[([^\]]+)\]\(([^)]+)\)' tried at position p: [ok, label, url, end]
LinkMatch(s, p) ==
    LET q == Find(s, p + 1, "]")
        r == Find(s, q + 2, ")")
    IN IF /\ p <= Len(s) /\ s[p] = "["
          /\ q >= p + 2
          /\ q + 1 <= Len(s) /\ s[q + 1] = "("
          /\ r >= q + 3
       THEN [ok |-> TRUE, label |-> SubSeq(s, p + 1, q - 1),
             url |-> SubSeq(s, q + 2, r - 1), end |-> r]
       ELSE [ok |-> FALSE, label |-> <<>>, url |-> <<>>, end |-> p]

\* rf'<a href="\2" color="{THEME["accent"]}">\1</a>'
LinkRepl(m) ==
    <<"<", "a", " ", "h", "r", "e", "f", "=", "\"">> \o m.url
        \o <<"\"", " ", "c", "o", "l", "o", "r", "=", "\"">> \o THEME_accent
        \o <<"\"", ">">> \o m.label \o <<"<", "/", "a", ">">>

\* the first position q >= p at which hit[q] holds, or 0: where the left-to-right
\* scan of re.sub finds its next match, hit[q] telling whether the pattern
\* matches at q
FirstMatch(hit, p) ==
    IF \E q \in p..Len(hit) : hit[q]
    THEN CHOOSE q \in p..Len(hit) : hit[q] /\ \A r \in p..(q - 1) : ~hit[r]
    ELSE 0

LinkAt(s, p) == LinkMatch(s, p).ok

\* re.sub of the link pattern over s[p:]: non-overlapping matches, leftmost first
RECURSIVE SubLinks(_, _)
SubLinks(s, p) ==
    LET q == FirstMatch([r \in 1..Len(s) |-> LinkAt(s, r)], p)
        m == LinkMatch(s, q)
    IN IF q = 0 THEN SubSeq(s, p, Len(s))
       ELSE SubSeq(s, p, q - 1) \o LinkRepl(m) \o SubLinks(s, m.end + 1)

\* r'\*\*(.+?)\*\*' tried at position p: the position of the closing '**', or 0
BoldClose(s, p) ==
    IF p + 1 <= Len(s) /\ s[p] = "*" /\ s[p + 1] = "*"
       /\ \E c \in (p + 3)..(Len(s) - 1) :
             s[c] = "*" /\ s[c + 1] = "*" /\ \A k \in (p + 2)..(c - 1) : s[k] # "\n"
    THEN CHOOSE c \in (p + 3)..(Len(s) - 1) :
            /\ s[c] = "*" /\ s[c + 1] = "*"
            /\ \A d \in (p + 3)..(c - 1) : ~(s[d] = "*" /\ s[d + 1] = "*")
    ELSE 0

BoldAt(s, p) == BoldClose(s, p) # 0

\* re.sub(r'\*\*(.+?)\*\*', r'<b>\1</b>', ...) over s[p:]
RECURSIVE SubBold(_, _)
SubBold(s, p) ==
    LET q == FirstMatch([r \in 1..Len(s) |-> BoldAt(s, r)], p)
        c == BoldClose(s, q)
    IN IF q = 0 THEN SubSeq(s, p, Len(s))
       ELSE SubSeq(s, p, q - 1)
               \o <<"<", "b", ">">> \o SubSeq(s, q + 2, c - 1) \o <<"<", "/", "b", ">">>
               \o SubBold(s, c + 2)

\* r'\*(.+?)\*' tried at position p: the position of the closing '*', or 0
ItalicClose(s, p) ==
    IF p <= Len(s) /\ s[p] = "*"
       /\ \E c \in (p + 2)..Len(s) : s[c] = "*" /\ \A k \in (p + 1)..(c - 1) : s[k] # "\n"
    THEN CHOOSE c \in (p + 2)..Len(s) :
            s[c] = "*" /\ \A d \in (p + 2)..(c - 1) : s[d] # "*"
    ELSE 0

ItalicAt(s, p) == ItalicClose(s, p) # 0

\* re.sub(r'\*(.+?)\*', r'<i>\1</i>', ...) over s[p:]
RECURSIVE SubItalic(_, _)
SubItalic(s, p) ==
    LET q == FirstMatch([r \in 1..Len(s) |-> ItalicAt(s, r)], p)
        c == ItalicClose(s, q)
    IN IF q = 0 THEN SubSeq(s, p, Len(s))
       ELSE SubSeq(s, p, q - 1)
               \o <<"<", "i", ">">> \o SubSeq(s, q + 1, c - 1) \o <<"<", "/", "i", ">">>
               \o SubItalic(s, c + 1)

\* the alternatives of the lookahead (?!amp;|lt;|gt;|quot;|#)
Entities == {<<"a", "m", "p", ";">>, <<"l", "t", ";">>, <<"g", "t", ";">>,
             <<"q", "u", "o", "t", ";">>, <<"#">>}

\* r'&(?!amp;|lt;|gt;|quot;|#)' matches at position p
BareAmp(s, p) ==
    /\ s[p] = "&"
    /\ \A e \in Entities : ~startswith(SubSeq(s, p + 1, Len(s)), e)

\* re.sub(r'&(?!amp;|lt;|gt;|quot;|#)', '&amp;', ...) over s[p:]
RECURSIVE SubAmp(_, _)
SubAmp(s, p) ==
    LET q == FirstMatch([r \in 1..Len(s) |-> BareAmp(s, r)], p)
    IN IF q = 0 THEN SubSeq(s, p, Len(s))
       ELSE SubSeq(s, p, q - 1) \o <<"&", "a", "m", "p", ";">> \o SubAmp(s, q + 1)

md_inline(s) == SubAmp(SubItalic(SubBold(SubLinks(s, 1), 1), 1), 1)

(***************************************************************************)
(* A run of md_inline on its own output                                    *)
(***************************************************************************)
Alphabet == {"*", "a", "&", "[", "]", "(", ")"}

Strings == UNION {[1..n -> Alphabet] : n \in 0..MaxLen}

None == <<"None">>     \* Python's None, distinct from every str

NoFile == [exists |-> FALSE, content |-> <<>>]

CliIdle ==
    /\ md_file = NoFile /\ pdf_written = FALSE /\ exit_code = -1 /\ stderr = 0
    /\ calls = <<>> /\ pc = "idle" /\ lines = <<>> /\ story = <<>> /\ i = 0
    /\ is_header_done = FALSE /\ current_section = None /\ span = <<>>

InlineIdle == text = <<>> /\ once = <<>> /\ twice = <<>> /\ ipc = "idle"

InlineInit ==
    /\ text \in Strings
    /\ once = <<>> /\ twice = <<>> /\ ipc = "start"
    /\ CliIdle

InlineFirst ==
    /\ ipc = "start"
    /\ once' = md_inline(text)
    /\ ipc' = "once"
    /\ UNCHANGED <<text, twice>>
    /\ UNCHANGED cliVars

InlineSecond ==
    /\ ipc = "once"
    /\ twice' = md_inline(once)
    /\ ipc' = "twice"
    /\ UNCHANGED <<text, once>>
    /\ UNCHANGED cliVars

InlineNext == InlineFirst \/ InlineSecond

InlineSpec == InlineInit /\ [][InlineNext]_vars

(***************************************************************************)
(* Input documents                                                         *)
(***************************************************************************)
L_empty == <<>>
L_spaces == <<" ", " ">>
L_rule == <<"-", "-", "-">>
L_rule_sp == <<"-", "-", "-", " ">>
L_h1 == <<"#", " ", "N">>
L_h2_exp == <<"#", "#", " ", "E", "x", "p", "e", "r", "t", "i", "s", "e">>
L_h2_work == <<"#", "#", " ", "W", "o", "r", "k">>
L_h3 == <<"#", "#", "#", " ", "R">>
L_company == <<"*", "*", "L", ":", "*", "*", " ", "x", " ", "|", " ", "y">>
L_bold == <<"*", "*", "D", "*", "*">>
L_bold_pipe == <<"*", "*", "A", " ", "|", " ", "B", "*", "*">>
L_italic == <<"*", "I", "*">>
L_bullet == <<"-", " ", "b">>
L_cont == <<" ", " ", "c">>
L_sub_bullet == <<" ", " ", "-", " ", "n">>
L_contact == <<"m", "@", "x", " ", "|", " ", "[", "s", "]", "(", "u", ")">>
L_h1_contact == <<"#", " ", "m", "@", "x", " ", "|", " ", "y">>
L_label == <<"*", "*", "L", ":", "*", "*", " ", "x">>
L_body == <<"t">>

InputLines ==
    {L_empty, L_spaces, L_rule, L_rule_sp, L_h1, L_h2_exp, L_h2_work, L_h3, L_company,
     L_bold, L_bold_pipe, L_italic, L_bullet, L_cont, L_sub_bullet, L_contact,
     L_h1_contact, L_label, L_body}

\* md_text.split('\n') always holds at least one line
Docs == UNION {[1..n -> InputLines] : n \in 1..MaxLines}

(***************************************************************************)
(* parse_resume_md                                                         *)
(***************************************************************************)
Paragraph(t, style) == [flowable |-> "Paragraph", text |-> t, style |-> style]

\* thickness in tenths of a point
hr == [flowable |-> "HRFlowable", thickness |-> 3, spaceBefore |-> 4, spaceAfter |-> 4]

thick_hr == [flowable |-> "HRFlowable", thickness |-> 5, spaceBefore |-> 0, spaceAfter |-> 6]

\* re.match(r'^-{3,}$', s)
re_rule(s) == Len(s) >= 3 /\ \A p \in 1..Len(s) : s[p] = "-"

\* re.match(r'^\*\*[^*]+\*\*', s)
re_company(s) ==
    LET q == Find(s, 3, "*")
    IN /\ startswith(s, <<"*", "*">>)
       /\ q >= 4
       /\ q + 1 <= Len(s) /\ s[q + 1] = "*"

\* re.match(r'^\*\*(.+)\*\*$', s)
re_bold_line(s) ==
    /\ Len(s) >= 5
    /\ startswith(s, <<"*", "*">>)
    /\ s[Len(s) - 1] = "*" /\ s[Len(s)] = "*"
    /\ \A p \in 3..(Len(s) - 2) : s[p] # "\n"

\* group(1) of that match
bold_inner(s) == SubSeq(s, 3, Len(s) - 2)

\* re.match(r'^\*[^*]+\*$', s)
re_italic_line(s) ==
    /\ Len(s) >= 3
    /\ s[1] = "*" /\ s[Len(s)] = "*"
    /\ \A p \in 2..(Len(s) - 1) : s[p] # "*"

\* re.sub(r'\[([^\]]+)\]\([^)]+\)', r'\1', ...) over s[p:]
RECURSIVE StripLinks(_, _)
StripLinks(s, p) ==
    LET q == FirstMatch([r \in 1..Len(s) |-> LinkAt(s, r)], p)
        m == LinkMatch(s, q)
    IN IF q = 0 THEN SubSeq(s, p, Len(s))
       ELSE SubSeq(s, p, q - 1) \o m.label \o StripLinks(s, m.end + 1)

NBSP == <<"&", "n", "b", "s", "p", ";">>

\* PadPipes as if the source read s.replace('|', '|&nbsp;')
RECURSIVE PadPipes_RightOnly(_)
PadPipes_RightOnly(s) ==
    LET q == Find(s, 1, "|")
    IN IF q = 0 THEN s
       ELSE SubSeq(s, 1, q - 1) \o <<"|">> \o NBSP \o PadPipes_RightOnly(SubSeq(s, q + 1, Len(s)))

\* s.replace('|', '&nbsp;|&nbsp;')
RECURSIVE PadPipes(_)
PadPipes(s) ==
    LET q == Find(s, 1, "|")
    IN IF q = 0 THEN s
       ELSE SubSeq(s, 1, q - 1) \o NBSP \o <<"|">> \o NBSP \o PadPipes(SubSeq(s, q + 1, Len(s)))

\* BulletContinues as if the loop did not test for a new bullet
BulletContinues_NoBulletTest(ls, j) ==
    /\ j + 1 < Len(ls)
    /\ startswith(ls[j + 2], <<" ", " ">>)

\* the condition of the bullet's while loop on the line after the 0-based line j
BulletContinues(ls, j) ==
    /\ j + 1 < Len(ls)
    /\ startswith(ls[j + 2], <<" ", " ">>)
    /\ ~startswith(strip(ls[j + 2]), <<"-", " ">>)

\* the bullet's while loop: the last line consumed and the collected text
RECURSIVE BulletCollect(_, _, _)
BulletCollect(ls, j, t) ==
    IF BulletContinues(ls, j)
    THEN BulletCollect(ls, j + 1, t \o <<" ">> \o strip(ls[j + 2]))
    ELSE [i |-> j, text |-> t]

\* the condition of the body's while loop on the line after the 0-based line j
BodyContinues(ls, j) ==
    /\ j + 1 < Len(ls)
    /\ strip(ls[j + 2]) # <<>>
    /\ ~startswith(ls[j + 2], <<"#">>)
    /\ ~startswith(ls[j + 2], <<"-", " ">>)
    /\ ~re_rule(ls[j + 2])
    /\ ~startswith(ls[j + 2], <<"*", "*">>)

\* the body's while loop: the last line consumed and the collected text
RECURSIVE BodyCollect(_, _, _)
BodyCollect(ls, j, t) ==
    IF BodyContinues(ls, j)
    THEN BodyCollect(ls, j + 1, t \o <<" ">> \o strip(ls[j + 2]))
    ELSE [i |-> j, text |-> t]

\* '&#8226; &nbsp;'
BulletGlyph == <<"&", "#", "8", "2", "2", "6", ";", " ">> \o NBSP

\* line = lines[i].rstrip()
line == rstrip(lines[i + 1])

InLoop == pc = "parse" /\ i < Len(lines)

\* the tests of the loop body, in the order the source makes them
IsBlank(s) == s = <<>>
IsRule(s) == re_rule(s)
IsH1(s) == startswith(s, <<"#", " ">>) /\ ~startswith(s, <<"#", "#", " ">>)
IsH2(s) == startswith(s, <<"#", "#", " ">>)
IsH3(s) == startswith(s, <<"#", "#", "#", " ">>)
IsCompany(s) == re_company(s) /\ Has(s, "|")
\* IsSubtitle as if the source did not test is_header_done
IsSubtitle_Anywhere(s, done) == re_bold_line(s)

IsSubtitle(s, done) == re_bold_line(s) /\ ~done
IsItalic(s) == re_italic_line(s)
IsBullet(s) == startswith(s, <<"-", " ">>)
IsContact(s) == Has(s, "|") /\ Has(s, "@")
\* IsSkills as if the source compared current_section without .lower()
IsSkills_CaseSensitive(s, section) ==
    /\ section # None /\ section # <<>>
    /\ HasStr(section, <<"e", "x", "p", "e", "r", "t", "i", "s", "e">>)
    /\ HasStr(s, <<"*", "*">>)

IsSkills(s, section) ==
    /\ section # None /\ section # <<>>
    /\ HasStr(lower(section), <<"e", "x", "p", "e", "r", "t", "i", "s", "e">>)
    /\ HasStr(s, <<"*", "*">>)

\* the loop body reaches the test of rule n only if no earlier test held
Past(s, done, n) ==
    /\ (n > 1 => ~IsBlank(s))
    /\ (n > 2 => ~IsRule(s))
    /\ (n > 3 => ~IsH1(s))
    /\ (n > 4 => ~IsH2(s))
    /\ (n > 5 => ~IsH3(s))
    /\ (n > 6 => ~IsCompany(s))
    /\ (n > 7 => ~IsSubtitle(s, done))
    /\ (n > 8 => ~IsItalic(s))
    /\ (n > 9 => ~IsBullet(s))
    /\ (n > 10 => ~IsContact(s))

\* Emit as if the source forgot the i += 1 that ends each branch
Emit_NoAdvance(block, last) ==
    /\ story' = Append(story, block)
    /\ span' = Append(span, [first |-> i, last |-> last])
    /\ i' = last

\* story.append(block) for the lines first..last, then i = last + 1
Emit(block, last) ==
    /\ story' = Append(story, block)
    /\ span' = Append(span, [first |-> i, last |-> last])
    /\ i' = last + 1

ParseFrame == <<md_file, pdf_written, exit_code, stderr, calls, pc, lines>>

SkipBlank ==
    /\ InLoop
    /\ IsBlank(line)
    /\ i' = i + 1
    /\ UNCHANGED <<story, span, is_header_done, current_section>>
    /\ UNCHANGED ParseFrame /\ UNCHANGED inlineVars

Rule ==
    /\ InLoop
    /\ Past(line, is_header_done, 2) /\ IsRule(line)
    /\ IF ~is_header_done
       THEN Emit(thick_hr, i) /\ is_header_done' = TRUE
       ELSE Emit(hr, i) /\ UNCHANGED is_header_done
    /\ UNCHANGED current_section
    /\ UNCHANGED ParseFrame /\ UNCHANGED inlineVars

H1 ==
    /\ InLoop
    /\ Past(line, is_header_done, 3) /\ IsH1(line)
    /\ Emit(Paragraph(md_inline(strip(From(line, 2))), "name"), i)
    /\ UNCHANGED <<is_header_done, current_section>>
    /\ UNCHANGED ParseFrame /\ UNCHANGED inlineVars

H2 ==
    /\ InLoop
    /\ Past(line, is_header_done, 4) /\ IsH2(line)
    /\ current_section' = strip(From(line, 3))
    /\ Emit(Paragraph(upper(strip(From(line, 3))), "section"), i)
    /\ UNCHANGED is_header_done
    /\ UNCHANGED ParseFrame /\ UNCHANGED inlineVars

H3 ==
    /\ InLoop
    /\ Past(line, is_header_done, 5) /\ IsH3(line)
    /\ Emit(Paragraph(md_inline(strip(From(line, 4))), "role"), i)
    /\ UNCHANGED <<is_header_done, current_section>>
    /\ UNCHANGED ParseFrame /\ UNCHANGED inlineVars

Company ==
    /\ InLoop
    /\ Past(line, is_header_done, 6) /\ IsCompany(line)
    /\ Emit(Paragraph(md_inline(line), "company"), i)
    /\ UNCHANGED <<is_header_done, current_section>>
    /\ UNCHANGED ParseFrame /\ UNCHANGED inlineVars

Subtitle ==
    /\ InLoop
    /\ Past(line, is_header_done, 7) /\ IsSubtitle(line, is_header_done)
    /\ Emit(Paragraph(md_inline(bold_inner(line)), "subtitle"), i)
    /\ UNCHANGED <<is_header_done, current_section>>
    /\ UNCHANGED ParseFrame /\ UNCHANGED inlineVars

ItalicLabel ==
    /\ InLoop
    /\ Past(line, is_header_done, 8) /\ IsItalic(line)
    /\ Emit(Paragraph(strip(stripChars(line, {"*"})), "italic_label"), i)
    /\ UNCHANGED <<is_header_done, current_section>>
    /\ UNCHANGED ParseFrame /\ UNCHANGED inlineVars

Bullet ==
    /\ InLoop
    /\ Past(line, is_header_done, 9) /\ IsBullet(line)
    /\ LET c == BulletCollect(lines, i, strip(From(line, 2)))
       IN Emit(Paragraph(BulletGlyph \o md_inline(c.text), "bullet"), c.i)
    /\ UNCHANGED <<is_header_done, current_section>>
    /\ UNCHANGED ParseFrame /\ UNCHANGED inlineVars

Contact ==
    /\ InLoop
    /\ Past(line, is_header_done, 10) /\ IsContact(line)
    /\ Emit(Paragraph(PadPipes(StripLinks(line, 1)), "contact"), i)
    /\ UNCHANGED <<is_header_done, current_section>>
    /\ UNCHANGED ParseFrame /\ UNCHANGED inlineVars

Skills ==
    /\ InLoop
    /\ Past(line, is_header_done, 11) /\ IsSkills(line, current_section)
    /\ Emit(Paragraph(md_inline(line), "skills"), i)
    /\ UNCHANGED <<is_header_done, current_section>>
    /\ UNCHANGED ParseFrame /\ UNCHANGED inlineVars

Body ==
    /\ InLoop
    /\ Past(line, is_header_done, 11) /\ ~IsSkills(line, current_section)
    /\ LET c == BodyCollect(lines, i, line)
       IN Emit(Paragraph(md_inline(c.text), "body"), c.i)
    /\ UNCHANGED <<is_header_done, current_section>>
    /\ UNCHANGED ParseFrame /\ UNCHANGED inlineVars

(***************************************************************************)
(* The command-line run                                                    *)
(***************************************************************************)
RunFrame == <<lines, story, i, is_header_done, current_section, span>>

Init ==
    /\ md_file \in {NoFile} \cup {[exists |-> TRUE, content |-> d] : d \in Docs}
    /\ pdf_written = FALSE /\ exit_code = -1 /\ stderr = 0
    /\ calls = <<>> /\ pc = "main"
    /\ lines = <<>> /\ story = <<>> /\ i = 0
    /\ is_header_done = FALSE /\ current_section = None /\ span = <<>>
    /\ InlineIdle

\* MainMissing as if the source called generate_pdf without the exists() test
MainMissing_NoCheck ==
    /\ pc = "main"
    /\ ~md_file.exists
    /\ calls' = Append(calls, "exists")
    /\ pc' = "generate_pdf"
    /\ UNCHANGED <<md_file, pdf_written, exit_code, stderr>>
    /\ UNCHANGED <<lines, story, i, is_header_done, current_section, span>>
    /\ UNCHANGED inlineVars

\* if not Path(input_md).exists(): print(..., file=sys.stderr); sys.exit(1)
MainMissing ==
    /\ pc = "main"
    /\ ~md_file.exists
    /\ calls' = Append(calls, "exists")
    /\ stderr' = stderr + 1
    /\ exit_code' = 1
    /\ pc' = "exited"
    /\ UNCHANGED <<md_file, pdf_written>>
    /\ UNCHANGED RunFrame /\ UNCHANGED inlineVars

\* the path exists: generate_pdf(input_md, output_pdf) is called
MainFound ==
    /\ pc = "main"
    /\ md_file.exists
    /\ calls' = Append(calls, "exists")
    /\ pc' = "generate_pdf"
    /\ UNCHANGED <<md_file, pdf_written, exit_code, stderr>>
    /\ UNCHANGED RunFrame /\ UNCHANGED inlineVars

\* read_text, build_styles and the entry of parse_resume_md
ReadAndEnter ==
    /\ pc = "generate_pdf"
    /\ calls' = calls \o <<"read_text", "build_styles", "parse_resume_md">>
    /\ lines' = md_file.content
    /\ story' = <<>> /\ span' = <<>>
    /\ i' = 0
    /\ is_header_done' = FALSE
    /\ current_section' = None
    /\ pc' = "parse"
    /\ UNCHANGED <<md_file, pdf_written, exit_code, stderr>>
    /\ UNCHANGED inlineVars

\* the while loop ends: return story
Return ==
    /\ pc = "parse"
    /\ ~(i < Len(lines))
    /\ pc' = "build"
    /\ UNCHANGED <<md_file, pdf_written, exit_code, stderr, calls>>
    /\ UNCHANGED RunFrame /\ UNCHANGED inlineVars

\* SimpleDocTemplate(...), doc.build(story), print, normal exit
Build ==
    /\ pc = "build"
    /\ calls' = calls \o <<"doc.build", "write">>
    /\ pdf_written' = TRUE
    /\ exit_code' = 0
    /\ pc' = "exited"
    /\ UNCHANGED <<md_file, stderr>>
    /\ UNCHANGED RunFrame /\ UNCHANGED inlineVars

Next ==
    \/ MainMissing \/ MainFound \/ ReadAndEnter
    \/ SkipBlank \/ Rule \/ H1 \/ H2 \/ H3 \/ Company \/ Subtitle \/ ItalicLabel
    \/ Bullet \/ Contact \/ Skills \/ Body
    \/ Return \/ Build

Spec == Init /\ [][Next]_vars

(***************************************************************************)
(* Vocabulary of the properties                                            *)
(***************************************************************************)
\* the 0-based input line l as the main loop sees it
LineAt(l) == rstrip(lines[l + 1])

\* the lines the cursor has passed
Passed == 0..(i - 1)

\* the elements of story the input line l was consumed for
Owners(l) == {n \in 1..Len(story) : span[n].first <= l /\ l <= span[n].last}

IsRuleBlock(b) == b.flowable = "HRFlowable"
IsRuleThick(b) == IsRuleBlock(b) /\ b.thickness = 5
IsRuleThin(b) == IsRuleBlock(b) /\ b.thickness = 3
HasStyle(b, style) == b.flowable = "Paragraph" /\ b.style = style

\* is_header_done had been set when the n-th element of story was built
HeaderDoneBefore(n) == \E m \in 1..(n - 1) : IsRuleBlock(story[m])

\* the line is the only line of an element of story that satisfies Kind
OwnBlock(l, Kind(_)) ==
    \E n \in 1..Len(story) : span[n] = [first |-> l, last |-> l] /\ Kind(story[n])

EXPERTISE == <<"e", "x", "p", "e", "r", "t", "i", "s", "e">>

\* the text of the most recent '## ' header above line l names an expertise
\* section, whatever the case of its letters
UnderExpertise(l) ==
    \E h \in 0..(l - 1) :
        /\ startswith(LineAt(h), <<"#", "#", " ">>)
        /\ \A k \in (h + 1)..(l - 1) : ~startswith(LineAt(k), <<"#", "#", " ">>)
        /\ \E p \in 1..Len(LineAt(h)) :
              /\ p + 8 <= Len(LineAt(h))
              /\ \A d \in 0..8 :
                    LineAt(h)[p + d] = EXPERTISE[d + 1]
                      \/ (LineAt(h)[p + d] \in DOMAIN LowerOf
                            /\ LowerOf[LineAt(h)[p + d]] = EXPERTISE[d + 1])

\* a line of the form '**Label:** rest'
IsLabelLine(s) ==
    LET q == Find(s, 3, "*")
    IN /\ Len(s) >= 6 /\ s[1] = "*" /\ s[2] = "*"
       /\ q >= 5 /\ s[q - 1] = ":"
       /\ q + 1 <= Len(s) /\ s[q + 1] = "*"

EndsBold(s) == Len(s) >= 2 /\ s[Len(s) - 1] = "*" /\ s[Len(s)] = "*"

\* a line wrapped in '**' from its first to its last character
IsBoldWrapped(s) == Len(s) >= 5 /\ s[1] = "*" /\ s[2] = "*" /\ EndsBold(s)

\* a raw line that a bullet absorbs: two leading spaces, not a bullet itself
IsIndented(raw) ==
    /\ Len(raw) >= 2 /\ raw[1] = " " /\ raw[2] = " "
    /\ ~startswith(strip(raw), <<"-", " ">>)

\* the number of indented lines that directly follow line l
Indented(l) ==
    CHOOSE k \in 0..(Len(lines) - l - 1) :
        /\ \A m \in 1..k : IsIndented(lines[l + m + 1])
        /\ (l + k + 1 < Len(lines) => ~IsIndented(lines[l + k + 2]))

\* parts joined by single spaces
RECURSIVE JoinSpaces(_)
JoinSpaces(parts) ==
    IF Len(parts) = 1 THEN parts[1]
    ELSE parts[1] \o <<" ">> \o JoinSpaces(Tail(parts))

\* every '|' of t stands between two non-breaking spaces
PipesPadded(t) ==
    \A p \in 1..Len(t) :
        t[p] = "|" =>
            /\ p > Len(NBSP) /\ SubSeq(t, p - Len(NBSP), p - 1) = NBSP
            /\ p + Len(NBSP) <= Len(t) /\ SubSeq(t, p + 1, p + Len(NBSP)) = NBSP

(***************************************************************************)
(* C1                                                                      *)
(***************************************************************************)
\* C1: the first line that matches ^-{3,}$ (as the loop tests it, right-stripped)
\* produces a RuleThick block of its own and every later such line a RuleThin
\* block of its own; so story holds at most one RuleThick, it precedes every
\* RuleThin, and is_header_done is set exactly when a rule block was emitted.
C1_FirstRuleThick ==
    /\ \A l \in Passed :
          re_rule(LineAt(l)) =>
              IF \A k \in 0..(l - 1) : ~re_rule(LineAt(k))
              THEN OwnBlock(l, IsRuleThick)
              ELSE OwnBlock(l, IsRuleThin)
    /\ \A n, m \in 1..Len(story) :
          IsRuleThick(story[n]) /\ IsRuleBlock(story[m]) /\ m # n
              => n < m /\ IsRuleThin(story[m])
    /\ is_header_done = (\E n \in 1..Len(story) : IsRuleThick(story[n]))

(***************************************************************************)
(* C2                                                                      *)
(***************************************************************************)
\* C2: every non-blank line the cursor has passed belongs to exactly one element
\* of story, every blank line to none, and the elements of story follow one
\* another in the order of their lines.
C2_OneBlockPerLine ==
    /\ Len(span) = Len(story)
    /\ \A l \in Passed :
          IF LineAt(l) = <<>> THEN Owners(l) = {} ELSE Cardinality(Owners(l)) = 1
    /\ \A n \in 1..(Len(story) - 1) : span[n].last < span[n + 1].first

(***************************************************************************)
(* C3                                                                      *)
(***************************************************************************)
\* C3: md_inline is idempotent: applying it to its own output changes nothing.
C3_Idempotent == ipc = "twice" => twice = once

(***************************************************************************)
(* C4                                                                      *)
(***************************************************************************)
\* C4: a line starting with '- ' followed by k >= 1 indented non-bullet lines
\* yields exactly one Bullet block for these k + 1 lines; its text is the glyph
\* prefix and md_inline, applied once, of the first line's text and the k
\* stripped lines joined by single spaces; the cursor resumes right after the
\* k absorbed lines (it has since skipped blank lines only).
C4_BulletContinuation ==
    \A l \in Passed :
        startswith(LineAt(l), <<"-", " ">>) /\ Indented(l) >= 1 =>
            LET k == Indented(l)
                parts == [m \in 1..(k + 1) |->
                            IF m = 1 THEN strip(From(LineAt(l), 2))
                            ELSE strip(lines[l + m])]
            IN \E n \in 1..Len(story) :
                  /\ Owners(l) = {n}
                  /\ span[n] = [first |-> l, last |-> l + k]
                  /\ story[n] = Paragraph(BulletGlyph \o md_inline(JoinSpaces(parts)), "bullet")
                  /\ \A m \in (l + 1)..(l + k) : Owners(m) = {n}
                  /\ i >= l + k + 1
                  /\ (n = Len(story) => \A m \in (l + k + 1)..(i - 1) : LineAt(m) = <<>>)
                  /\ (n < Len(story) => span[n + 1].first >= l + k + 1)

\* a bullet that absorbed a continuation line has been emitted
C4_Witness ==
    \E n \in 1..Len(story) :
        /\ HasStyle(story[n], "bullet")
        /\ span[n].last > span[n].first
        /\ i = span[n].last + 1

(***************************************************************************)
(* C5                                                                      *)
(***************************************************************************)
\* C5 as stated: every line with both '|' and '@' that starts a unit produces a
\* ContactLine block.
C5_ContactAlways ==
    \A n \in 1..Len(story) :
        LET s == LineAt(span[n].first)
        IN Has(s, "|") /\ Has(s, "@") => HasStyle(story[n], "contact")

\* no earlier rule of the loop (rule line, '# ', '## ', '### ', company line,
\* subtitle, italic label, bullet) takes the line
NoEarlierRule(s, done) ==
    /\ ~re_rule(s)
    /\ ~startswith(s, <<"#", " ">>) /\ ~startswith(s, <<"#", "#", " ">>)
    /\ ~startswith(s, <<"#", "#", "#", " ">>)
    /\ ~(re_company(s) /\ Has(s, "|"))
    /\ ~(IsBoldWrapped(s) /\ ~done)
    /\ ~re_italic_line(s)
    /\ ~startswith(s, <<"-", " ">>)

\* every '[' of s opens a link whose label and url hold no '['
PlainLinks(s) ==
    \A p \in 1..Len(s) :
        s[p] = "[" =>
            /\ LinkMatch(s, p).ok
            /\ ~Has(LinkMatch(s, p).label, "[") /\ ~Has(LinkMatch(s, p).url, "[")

\* C5 amended: a line with both '|' and '@' that starts a unit and that none of
\* the earlier rules takes produces a ContactLine block of its own, whose text is
\* the line with its [label](url) matches replaced by the label (no '[' is left
\* when the links are plain) and every '|' between two non-breaking spaces.
C5_ContactUnlessEarlierRule ==
    \A n \in 1..Len(story) :
        LET s == LineAt(span[n].first)
        IN Has(s, "|") /\ Has(s, "@") /\ NoEarlierRule(s, HeaderDoneBefore(n)) =>
              /\ HasStyle(story[n], "contact")
              /\ span[n].last = span[n].first
              /\ PipesPadded(story[n].text)
              /\ (PlainLinks(s) => ~Has(story[n].text, "["))
              /\ \E p \in 1..Len(story[n].text) : story[n].text[p] = "|"

\* a contact line with a link has been emitted
C5_Witness ==
    \E n \in 1..Len(story) :
        /\ HasStyle(story[n], "contact")
        /\ Has(LineAt(span[n].first), "[")
        /\ NoEarlierRule(LineAt(span[n].first), HeaderDoneBefore(n))

(***************************************************************************)
(* C6                                                                      *)
(***************************************************************************)
\* C6 as stated: under an expertise section a '**Label:** rest' line is always a
\* SkillsLine, and a SkillsLine is emitted only under an expertise section.
C6_LabelIsSkills ==
    /\ \A l \in Passed :
          IsLabelLine(LineAt(l)) /\ UnderExpertise(l) =>
              OwnBlock(l, LAMBDA b : HasStyle(b, "skills"))
    /\ \A n \in 1..Len(story) :
          HasStyle(story[n], "skills") => UnderExpertise(span[n].first)

\* C6 amended: under an expertise section a '**Label:** rest' line that holds no
\* '|' (else it is a CompanyLine) and that does not end in '**' while
\* is_header_done is false (else it is a Subtitle) is a SkillsLine; such a line
\* is never a Body in any case; and a SkillsLine is emitted only under an
\* expertise section.
C6_LabelIsSkillsUnlessEarlierRule ==
    /\ \A l \in Passed :
          IsLabelLine(LineAt(l)) /\ UnderExpertise(l) =>
              \E n \in 1..Len(story) :
                  /\ span[n] = [first |-> l, last |-> l]
                  /\ ~HasStyle(story[n], "body")
                  /\ (~Has(LineAt(l), "|") /\ (HeaderDoneBefore(n) \/ ~EndsBold(LineAt(l)))
                        => story[n] = Paragraph(md_inline(LineAt(l)), "skills"))
    /\ \A n \in 1..Len(story) :
          HasStyle(story[n], "skills") => UnderExpertise(span[n].first)

\* a '**Label:** rest' line has been emitted as a SkillsLine
C6_Witness ==
    \E n \in 1..Len(story) :
        /\ HasStyle(story[n], "skills")
        /\ IsLabelLine(LineAt(span[n].first))
        /\ UnderExpertise(span[n].first)

(***************************************************************************)
(* C7                                                                      *)
(***************************************************************************)
RunOrder == <<"exists", "read_text", "build_styles", "parse_resume_md", "doc.build", "write">>

\* C7: with a missing input path the run prints an error and exits non-zero
\* having done nothing but the existence test: nothing is read, parsed, rendered
\* or written.  With an existing path the steps happen in the order exists,
\* read, parse, render, write, and the run ends with status 0 and the file
\* written.
C7_MissingInputAborts ==
    /\ ~md_file.exists =>
          /\ ~pdf_written /\ lines = <<>> /\ story = <<>>
          /\ pc \in {"main", "exited"}
          /\ calls \in {<<>>, <<"exists">>}
          /\ (pc = "exited" => exit_code = 1 /\ stderr = 1 /\ calls = <<"exists">>)
    /\ md_file.exists =>
          /\ Len(calls) <= Len(RunOrder) /\ calls = SubSeq(RunOrder, 1, Len(calls))
          /\ stderr = 0
          /\ (pdf_written <=> pc = "exited")
          /\ (pc = "exited" => exit_code = 0 /\ calls = RunOrder)
          /\ (pc # "exited" => exit_code = -1)

\* the run on a missing path has ended
C7_Witness == ~md_file.exists /\ pc = "exited" /\ exit_code = 1

(***************************************************************************)
(* C8                                                                      *)
(***************************************************************************)
\* the line at the cursor is non-blank and none of rules 2-11 takes it
NoRuleTakes(l) ==
    /\ LineAt(l) # <<>>
    /\ NoEarlierRule(LineAt(l), is_header_done)
    /\ ~(Has(LineAt(l), "|") /\ Has(LineAt(l), "@"))
    /\ ~(UnderExpertise(l) /\ HasStr(LineAt(l), <<"*", "*">>))

\* C8: every iteration of the loop moves i forward by at least one line, to the
\* line after the last one consumed, and never beyond len(lines); a non-blank
\* line that none of rules 2-11 takes becomes a Body block.  len(lines) - i is
\* then a variant of the loop: it decreases at every iteration and is never
\* negative, so the loop ends after at most len(lines) iterations.
C8_LoopStep ==
    pc = "parse" =>
        \/ /\ pc' = "build" /\ i = Len(lines) /\ i' = i /\ story' = story
        \/ /\ pc' = "parse" /\ i < Len(lines)
           /\ i' > i /\ i' <= Len(lines)
           /\ \/ /\ story' = story /\ i' = i + 1 /\ LineAt(i) = <<>>
              \/ /\ Len(story') = Len(story) + 1
                 /\ SubSeq(story', 1, Len(story)) = story
                 /\ span'[Len(story')].first = i
                 /\ i' = span'[Len(story')].last + 1
           /\ (NoRuleTakes(i) =>
                 Len(story') = Len(story) + 1 /\ HasStyle(story'[Len(story')], "body"))

C8_Terminates == [][C8_LoopStep]_vars /\ [](i <= Len(lines))

\* the loop has emitted a Body block for a line no rule takes and gone on
C8_Witness ==
    /\ pc = "build" /\ i = Len(lines) /\ Len(lines) = MaxLines
    /\ \E n \in 1..Len(story) : HasStyle(story[n], "body")

(***************************************************************************)
(* C9                                                                      *)
(***************************************************************************)
\* C9 as stated: no Subtitle follows a rule block, and a '**...**' line reached
\* after the first rule is a SkillsLine or a Body.
C9_BoldLineAfterRule ==
    /\ \A n \in 1..Len(story) : HasStyle(story[n], "subtitle") => ~HeaderDoneBefore(n)
    /\ \A n \in 1..Len(story) :
          IsBoldWrapped(LineAt(span[n].first)) /\ HeaderDoneBefore(n) =>
              HasStyle(story[n], "skills") \/ HasStyle(story[n], "body")

\* C9 amended: no Subtitle follows a rule block, and a '**...**' line reached
\* after the first rule is never a Subtitle: it is a CompanyLine when it matches
\* rule 6, else a ContactLine when it holds '|' and '@', else a SkillsLine or a
\* Body.
C9_NoSubtitleAfterRule ==
    /\ \A n \in 1..Len(story) : HasStyle(story[n], "subtitle") => ~HeaderDoneBefore(n)
    /\ \A l \in Passed :
          IsBoldWrapped(LineAt(l)) => \E n \in 1..Len(story) : span[n].first = l
    /\ \A n \in 1..Len(story) :
          LET s == LineAt(span[n].first)
          IN IsBoldWrapped(s) /\ HeaderDoneBefore(n) =>
                IF re_company(s) /\ Has(s, "|") THEN HasStyle(story[n], "company")
                ELSE IF Has(s, "|") /\ Has(s, "@") THEN HasStyle(story[n], "contact")
                ELSE HasStyle(story[n], "skills") \/ HasStyle(story[n], "body")

\* a '**...**' line has been classified after the first rule
C9_Witness ==
    \E n \in 1..Len(story) :
        /\ IsBoldWrapped(LineAt(span[n].first))
        /\ HeaderDoneBefore(n)
        /\ HasStyle(story[n], "body")

(***************************************************************************)
(* C10                                                                     *)
(***************************************************************************)
\* C10: a Body block absorbs a line only if it is non-blank, does not start with
\* '#', '- ' or '**' and is not a rule line; so a line the main loop classifies
\* as a rule line is never inside a Body block and always has a rule block of
\* its own.
C10_RuleNeverMerged ==
    /\ \A n \in 1..Len(story) :
          HasStyle(story[n], "body") =>
              \A l \in (span[n].first + 1)..span[n].last :
                  /\ strip(lines[l + 1]) # <<>>
                  /\ ~startswith(lines[l + 1], <<"#">>)
                  /\ ~startswith(lines[l + 1], <<"-", " ">>)
                  /\ ~startswith(lines[l + 1], <<"*", "*">>)
                  /\ ~re_rule(LineAt(l))
    /\ \A l \in Passed : re_rule(LineAt(l)) => OwnBlock(l, IsRuleBlock)

====
